---- MODULE Spec2Model ----
(***************************************************************************)
(* Model of the consumer crate (src/consumer/src/main.rs) and the provider *)
(* crate (src/provider/src/lib.rs).                                        *)
(*                                                                         *)
(* The state is the position of one synchronous run, the Application it    *)
(* owns, the expectations held by a MockByteService, the locals of the     *)
(* running function and a log of every call made.  The runs are the three  *)
(* entry points of the crate (main, tests::without_mocks and               *)
(* tests::with_mocks) and a driver that exercises the same methods with    *)
(* call sequences and bytes the entry points do not use.                   *)
(***************************************************************************)
EXTENDS Integers, Sequences, FiniteSets

VARIABLES
    run,      \* the function running: main (55-62) or a test (71-76, 81-95)
    input,    \* the byte drawn for the driver's is_zero calls
    pc,       \* the statement the run is at
    app,      \* the Application (40-43), None before new and after drop
    mock,     \* the expectations of the MockByteService (83-91)
    is_zero,  \* main's local is_zero (57)
    checked,  \* the scrutinee of main's match (58)
    log,      \* every call made so far, with its argument and result
    stdout,   \* the lines printed (59)
    status,   \* running, ok (normal return) or panicked
    failure   \* the message of the panic

vars == <<run, input, pc, app, mock, is_zero, checked, log, stdout, status,
          failure>>

(* ---------------------------------------------------------------- bounds *)

\* u8::MAX, the largest value a Byte or a Payload wraps.
ByteMax == 255

\* The most is_zero calls the driver makes on one Application.
MaxCalls == 3

Bytes == 0 .. ByteMax

(* ----------------------------------------------------------- value types *)

None == << >>

Some(x) == << x >>

Byte(x) == [Byte |-> x]

Boolean(p) == [Boolean |-> p]

Payload(x) == [Payload |-> x]

Outcome(p) == [Outcome |-> p]

\* A bug in equality on Byte: only the low seven bits are compared.
ByteEqLow7(a, b) == (a.Byte % 128) = (b.Byte % 128)

\* #[derive(PartialEq)] on Byte: the wrapped fields are compared.
ByteEq(a, b) == a.Byte = b.Byte

\* #[derive(PartialEq)] on Boolean.
BooleanEq(a, b) == a.Boolean = b.Boolean

(* -------------------------------------------------------------- provider *)

\* A bug in the provider: the comparison is against one, not zero.
functionalityOne(payload) == Outcome(payload.Payload = 1)

\* provider::functionality
functionality(payload) == Outcome(payload.Payload = 0)

(* -------------------------------------------------------------- services *)

\* A bug in the adapter: the answer depends on how many calls were logged.
ProviderAdapter_is_zero_stateful(byte) ==
    LET provider_payload == Payload(byte.Byte)
        provider_outcome == functionality(provider_payload)
    IN  Boolean(provider_outcome.Outcome /\ Len(log) < 4)

\* <ProviderAdapter as ByteService>::is_zero
ProviderAdapter_is_zero(byte) ==
    LET provider_payload == Payload(byte.Byte)
        provider_outcome == functionality(provider_payload)
    IN  Boolean(provider_outcome.Outcome)

\* The provider calls one ProviderAdapter::is_zero call makes.
ProviderAdapter_calls(byte) ==
    << [op |-> "functionality", svc |-> "provider",
        arg |-> Payload(byte.Byte), ret |-> functionality(Payload(byte.Byte))] >>

\* A bug in the helper: the wrapped value is negated.
BooleanService_is_true_negated(boolean) == ~ boolean.Boolean

\* BooleanService::is_true
BooleanService_is_true(boolean) == boolean.Boolean

(* ------------------------------------------------------------- test double *)

Panic == [Panic |-> TRUE]

NoMatch == "No matching expectation found"

TooFew == "Expectation called fewer than the expected number of times"

Whoops == "Whoops."

AssertFailed == "assertion left == right failed"

\* A bug in the test: the expectation allows two calls.
ExpectationTwice(with, returning) ==
    [with |-> with, times |-> 2, returning |-> returning, count |-> 0]

\* mock.expect_is_zero().with(eq(with)).times(1).returning(|_| returning)
Expectation(with, returning) ==
    [with |-> with, times |-> 1, returning |-> returning, count |-> 0]

\* The expectations that can still take a call with this byte.
Matching(m, byte) ==
    {i \in DOMAIN m : ByteEq(m[i].with, byte) /\ m[i].count < m[i].times}

First(S) == CHOOSE i \in S : \A j \in S : i <= j

\* <MockByteService as ByteService>::is_zero: the first expectation whose
\* predicate matches and whose call count is not used up takes the call.
MockByteService_is_zero(m, byte) ==
    IF Matching(m, byte) = {}
    THEN [ret |-> Panic, mock |-> m]
    ELSE LET i == First(Matching(m, byte))
         IN  [ret |-> m[i].returning, mock |-> [m EXCEPT ![i].count = @ + 1]]

\* Drop of a MockByteService: every expectation must have been used up.
MockByteService_satisfied(m) == \A i \in DOMAIN m : m[i].count >= m[i].times

(* ------------------------------------------------------------ application *)

\* Application::new
Application_new(byte_service) ==
    [byte_service |-> byte_service, boolean_service |-> "BooleanService"]

\* A bug in the application: the injected handle is bypassed.
ByteService_is_zero_bypass(a, m, byte) ==
    [ret |-> ProviderAdapter_is_zero(byte), mock |-> m,
     events |-> ProviderAdapter_calls(byte)]

\* app.byte_service.is_zero(byte): dispatch through the Box<dyn ByteService>.
ByteService_is_zero(a, m, byte) ==
    IF a.byte_service = "ProviderAdapter"
    THEN [ret |-> ProviderAdapter_is_zero(byte), mock |-> m,
          events |-> ProviderAdapter_calls(byte)]
    ELSE LET r == MockByteService_is_zero(m, byte)
         IN  [ret |-> r.ret, mock |-> r.mock, events |-> << >>]

Event(op, svc, arg, ret) == [op |-> op, svc |-> svc, arg |-> arg, ret |-> ret]

NewEvent(a) == Event("new", a.byte_service, None, None)

DropEvent(a) == Event("drop", a.byte_service, None, None)

IsZeroEvent(a, byte, ret) == Event("is_zero", a.byte_service, byte, ret)

IsTrueEvent(a, boolean, ret) == Event("is_true", a.boolean_service, boolean, ret)

IsPanic(ret) == "Panic" \in DOMAIN ret

(* ------------------------------------------------------------------ steps *)

Runs == {"main", "without_mocks", "with_mocks", "driver"}

\* The bytes the driver passes to is_zero: the two the tests use and the
\* byte drawn for the run.
DriverBytes == {0, 1, input}

Init ==
    /\ run \in Runs
    /\ input \in (IF run = "driver" THEN Bytes ELSE {0})
    /\ pc = "start"
    /\ app = None
    /\ mock = << >>
    /\ is_zero = None
    /\ checked = None
    /\ log = << >>
    /\ stdout = << >>
    /\ status = "running"
    /\ failure = None

\* A panic unwinds the running function: the Application is dropped (a
\* MockByteService dropped while panicking does not verify its expectations).
Unwind(msg, events) ==
    /\ status' = "panicked"
    /\ failure' = Some(msg)
    /\ pc' = "done"
    /\ log' = log \o events \o << DropEvent(app[1]) >>
    /\ app' = None

\* let app = Application::new(Box::new(byte_service));
New(byte_service, next) ==
    /\ app' = Some(Application_new(byte_service))
    /\ log' = log \o << NewEvent(Application_new(byte_service)) >>
    /\ pc' = next
    /\ UNCHANGED <<run, input, mock, is_zero, checked, stdout, status, failure>>

\* let is_zero = app.byte_service.is_zero(byte);
CallIsZero(byte, next) ==
    LET r == ByteService_is_zero(app[1], mock, byte)
        events == r.events \o << IsZeroEvent(app[1], byte, r.ret) >>
    IN  /\ mock' = r.mock
        /\ IF IsPanic(r.ret)
           THEN /\ Unwind(NoMatch, events)
                /\ UNCHANGED is_zero
           ELSE /\ is_zero' = Some(r.ret)
                /\ log' = log \o events
                /\ pc' = next
                /\ UNCHANGED <<app, status, failure>>
        /\ UNCHANGED <<run, input, checked, stdout>>

\* assert_eq!(app.byte_service.is_zero(byte), expected);
AssertIsZero(byte, expected, next) ==
    LET r == ByteService_is_zero(app[1], mock, byte)
        events == r.events \o << IsZeroEvent(app[1], byte, r.ret) >>
    IN  /\ mock' = r.mock
        /\ IF IsPanic(r.ret)
           THEN Unwind(NoMatch, events)
           ELSE IF ~ BooleanEq(r.ret, expected)
           THEN Unwind(AssertFailed, events)
           ELSE /\ log' = log \o events
                /\ pc' = next
                /\ UNCHANGED <<app, status, failure>>
        /\ UNCHANGED <<run, input, is_zero, checked, stdout>>

\* The scrutinee of the match: app.boolean_service.is_true(is_zero)
CallIsTrue(next) ==
    LET ret == BooleanService_is_true(is_zero[1])
    IN  /\ checked' = Some(ret)
        /\ log' = log \o << IsTrueEvent(app[1], is_zero[1], ret) >>
        /\ pc' = next
        /\ UNCHANGED <<run, input, app, mock, is_zero, stdout, status, failure>>

\* A bug in main: the false branch prints the message and goes on.
MatchPrints(next) ==
    /\ stdout' = Append(stdout, IF checked[1] THEN "All good." ELSE Whoops)
    /\ pc' = next
    /\ UNCHANGED <<run, input, app, mock, is_zero, checked, log, status,
                   failure>>

\* true => println!("All good."), false => panic!("Whoops.")
Match(next) ==
    /\ IF checked[1]
       THEN /\ stdout' = Append(stdout, "All good.")
            /\ pc' = next
            /\ UNCHANGED <<app, log, status, failure>>
       ELSE /\ Unwind(Whoops, << >>)
            /\ UNCHANGED stdout
    /\ UNCHANGED <<run, input, mock, is_zero, checked>>

\* The end of the function's scope: app is dropped, and a MockByteService
\* verifies its expectations.
Drop ==
    /\ app' = None
    /\ log' = log \o << DropEvent(app[1]) >>
    /\ pc' = "done"
    /\ IF app[1].byte_service = "MockByteService"
          /\ ~ MockByteService_satisfied(mock)
       THEN /\ status' = "panicked"
            /\ failure' = Some(TooFew)
       ELSE /\ status' = "ok"
            /\ UNCHANGED failure
    /\ UNCHANGED <<run, input, mock, is_zero, checked, stdout>>

(* ------------------------------------------------------------------- main *)

MainNew == run = "main" /\ pc = "start" /\ New("ProviderAdapter", "is_zero")

\* A bug in main: the workflow is invoked a second time.
MainIsZeroTwice ==
    /\ run = "main" /\ pc = "is_zero"
    /\ CallIsZero(Byte(0), IF is_zero = None THEN "is_zero" ELSE "is_true")

MainIsZero == run = "main" /\ pc = "is_zero" /\ CallIsZero(Byte(0), "is_true")

MainIsTrue == run = "main" /\ pc = "is_true" /\ CallIsTrue("match")

MainMatch == run = "main" /\ pc = "match" /\ Match("drop")

MainDrop == run = "main" /\ pc = "drop" /\ Drop

(* --------------------------------------------------- tests::without_mocks *)

WithoutMocksNew ==
    run = "without_mocks" /\ pc = "start" /\ New("ProviderAdapter", "first")

WithoutMocksFirst ==
    /\ run = "without_mocks" /\ pc = "first"
    /\ AssertIsZero(Byte(0), Boolean(TRUE), "second")

WithoutMocksSecond ==
    /\ run = "without_mocks" /\ pc = "second"
    /\ AssertIsZero(Byte(1), Boolean(FALSE), "drop")

WithoutMocksDrop == run = "without_mocks" /\ pc = "drop" /\ Drop

(* ------------------------------------------------------ tests::with_mocks *)

\* let mut mock = MockByteService::new();
MockNew(next) ==
    /\ mock' = << >>
    /\ pc' = next
    /\ UNCHANGED <<run, input, app, is_zero, checked, log, stdout, status,
                   failure>>

\* mock.expect_is_zero() ... ;
Expect(with, returning, next) ==
    /\ mock' = Append(mock, Expectation(with, returning))
    /\ pc' = next
    /\ UNCHANGED <<run, input, app, is_zero, checked, log, stdout, status,
                   failure>>

WithMocksMockNew == run = "with_mocks" /\ pc = "start" /\ MockNew("expect0")

WithMocksExpect0 ==
    /\ run = "with_mocks" /\ pc = "expect0"
    /\ Expect(Byte(0), Boolean(FALSE), "expect1")

WithMocksExpect1 ==
    /\ run = "with_mocks" /\ pc = "expect1"
    /\ Expect(Byte(1), Boolean(TRUE), "new")

WithMocksNew ==
    run = "with_mocks" /\ pc = "new" /\ New("MockByteService", "first")

WithMocksFirst ==
    /\ run = "with_mocks" /\ pc = "first"
    /\ AssertIsZero(Byte(0), Boolean(FALSE), "second")

WithMocksSecond ==
    /\ run = "with_mocks" /\ pc = "second"
    /\ AssertIsZero(Byte(1), Boolean(TRUE), "drop")

WithMocksDrop == run = "with_mocks" /\ pc = "drop" /\ Drop

(* ----------------------------------------------------------------- driver *)

NumCalls == Cardinality({i \in DOMAIN log : log[i].op = "is_zero"})

\* The driver builds the Application as main and without_mocks do.
DriverNewReal == run = "driver" /\ pc = "start" /\ New("ProviderAdapter", "loop")

\* The driver builds the test double as with_mocks does.
DriverMockNew == run = "driver" /\ pc = "start" /\ MockNew("expect0")

DriverExpect0 ==
    /\ run = "driver" /\ pc = "expect0"
    /\ Expect(Byte(0), Boolean(FALSE), "expect1")

DriverExpect1 ==
    /\ run = "driver" /\ pc = "expect1"
    /\ Expect(Byte(1), Boolean(TRUE), "new")

DriverNewMock == run = "driver" /\ pc = "new" /\ New("MockByteService", "loop")

\* Any is_zero call, with any of the driver's bytes.
DriverIsZero ==
    /\ run = "driver" /\ pc = "loop"
    /\ NumCalls < MaxCalls
    /\ \E b \in DriverBytes : CallIsZero(Byte(b), "loop")

\* The rest of the workflow of main, on the last result.
DriverIsTrue ==
    run = "driver" /\ pc = "loop" /\ is_zero # None /\ CallIsTrue("match")

DriverMatch == run = "driver" /\ pc = "match" /\ Match("drop")

DriverDrop == run = "driver" /\ pc \in {"loop", "drop"} /\ Drop

Next ==
    \/ MainNew
    \/ MainIsZero
    \/ MainIsTrue
    \/ MainMatch
    \/ MainDrop
    \/ WithoutMocksNew
    \/ WithoutMocksFirst
    \/ WithoutMocksSecond
    \/ WithoutMocksDrop
    \/ WithMocksMockNew
    \/ WithMocksExpect0
    \/ WithMocksExpect1
    \/ WithMocksNew
    \/ WithMocksFirst
    \/ WithMocksSecond
    \/ WithMocksDrop
    \/ DriverNewReal
    \/ DriverMockNew
    \/ DriverExpect0
    \/ DriverExpect1
    \/ DriverNewMock
    \/ DriverIsZero
    \/ DriverIsTrue
    \/ DriverMatch
    \/ DriverDrop

Spec == Init /\ [][Next]_vars

\* The run is one synchronous call chain: a step that can be taken is taken.
LiveSpec == Spec /\ WF_vars(Next)

(* ----------------------------------------------------------------- claims *)

ZeroCalls == {i \in DOMAIN log : log[i].op = "is_zero"}

TrueCalls == {i \in DOMAIN log : log[i].op = "is_true"}

\* The calls that returned a Boolean.
Returned == {i \in ZeroCalls : ~ IsPanic(log[i].ret)}

OnReal == log # << >> /\ log[1].svc = "ProviderAdapter"

OnMock == log # << >> /\ log[1].svc = "MockByteService"

Ops == [i \in DOMAIN log |-> log[i].op]

IsPrefix(s, t) == Len(s) <= Len(t) /\ \A i \in DOMAIN s : s[i] = t[i]

Last(S) == CHOOSE i \in S : \A j \in S : j <= i

\* C1: every is_zero call answered by the ProviderAdapter, for any byte in
\* 0..255, returns Boolean(true) when the byte is 0 and Boolean(false)
\* otherwise, and the provider was called with the same byte wrapped in a
\* Payload.
C1_AdapterIsZero ==
    /\ ProviderAdapter_is_zero(Byte(input)) = Boolean(input = 0)
    /\ \A i \in ZeroCalls :
          log[i].svc = "ProviderAdapter" =>
             /\ log[i].ret = Boolean(log[i].arg.Byte = 0)
             /\ log[i - 1].op = "functionality"
             /\ log[i - 1].arg = Payload(log[i].arg.Byte)

C1_Witness ==
    /\ OnReal
    /\ \E i, j \in ZeroCalls :
          /\ log[i].arg = Byte(0) /\ log[i].ret = Boolean(TRUE)
          /\ log[j].arg = Byte(ByteMax) /\ log[j].ret = Boolean(FALSE)

\* C2: with the test double of with_mocks injected, every is_zero call that
\* returns gives the configured value (false for Byte(0), true for Byte(1))
\* and provider::functionality is never called.
C2_Substitutable ==
    OnMock =>
       /\ \A i \in DOMAIN log : log[i].op # "functionality"
       /\ \A i \in Returned :
             /\ log[i].arg = Byte(0) => log[i].ret = Boolean(FALSE)
             /\ log[i].arg = Byte(1) => log[i].ret = Boolean(TRUE)

C2_Witness ==
    /\ run = "with_mocks" /\ pc = "done" /\ status = "ok"
    /\ Cardinality(Returned) = 2

\* C3: against the two single-call expectations, is_zero(Byte(0)) followed by
\* is_zero(Byte(1)) both return, with_mocks ends without a failure, and a
\* third call with Byte(0) or Byte(1) panics.
C3_CallCount ==
    /\ (run = "with_mocks" /\ pc = "done") => status = "ok"
    /\ OnMock =>
          \A i, j, k \in ZeroCalls :
             (i < j /\ j < k /\ log[i].arg = Byte(0) /\ log[j].arg = Byte(1)) =>
                /\ ~ IsPanic(log[i].ret)
                /\ ~ IsPanic(log[j].ret)
                /\ log[k].arg \in {Byte(0), Byte(1)} =>
                      /\ IsPanic(log[k].ret)
                      /\ status = "panicked"

C3_Witness ==
    /\ OnMock
    /\ \E i, j, k \in ZeroCalls :
          /\ i < j /\ j < k
          /\ log[i].arg = Byte(0) /\ log[j].arg = Byte(1) /\ log[k].arg = Byte(1)
          /\ IsPanic(log[k].ret)
    /\ status = "panicked"

\* C4: on the test-double path a call with a byte no expectation is for, a
\* second call with a byte already used, and a drop with an expectation not
\* called, each end the run panicked; the panic is raised by that very call
\* (it returns no Boolean and nothing but the unwinding drop follows it) or
\* by the drop.
C4_MismatchSurfaced ==
    OnMock =>
       /\ \A i \in ZeroCalls :
             /\ log[i].arg \notin {Byte(0), Byte(1)} => IsPanic(log[i].ret)
             /\ (\E j \in Returned : j < i /\ log[j].arg = log[i].arg)
                   => IsPanic(log[i].ret)
             /\ IsPanic(log[i].ret) =>
                   /\ status = "panicked"
                   /\ failure = Some(NoMatch)
                   /\ pc = "done"
                   /\ i = Len(log) - 1
                   /\ log[Len(log)].op = "drop"
       /\ (pc = "done" /\ \E b \in {0, 1} :
                             \A i \in Returned : log[i].arg # Byte(b))
             => /\ status = "panicked"
                /\ (ZeroCalls = Returned /\ checked # Some(FALSE))
                      => failure = Some(TooFew)
       /\ (pc = "done" /\ status = "ok") =>
             \A b \in {0, 1} :
                Cardinality({i \in ZeroCalls : log[i].arg = Byte(b)}) = 1

C4_Witness ==
    /\ OnMock
    /\ input \notin {0, 1}
    /\ \E i, j \in ZeroCalls :
          /\ i < j
          /\ log[i].arg = Byte(0) /\ ~ IsPanic(log[i].ret)
          /\ log[j].arg = Byte(input) /\ IsPanic(log[j].ret)
    /\ failure = Some(NoMatch)

\* The other two mismatches of C4: a byte called twice, and a byte not called.
C4_WitnessTooFew ==
    /\ OnMock /\ pc = "done" /\ failure = Some(TooFew)
    /\ Cardinality(Returned) = 1

\* C5: main always ends in the success state: it prints the success message,
\* exits normally and never panics.
C5_MainSucceeds ==
    /\ [](run = "main" => status # "panicked")
    /\ (run = "main") ~>
          (pc = "done" /\ status = "ok" /\ stdout = << "All good." >>)

C5_Witness ==
    /\ run = "main" /\ pc = "done" /\ status = "ok"
    /\ stdout = << "All good." >>
    /\ Ops = << "new", "functionality", "is_zero", "is_true", "drop" >>

\* C6: on the real path, once the match has run, the run has panicked with
\* the fixed message exactly when the checked result is false, which is
\* exactly when the byte passed to is_zero was not zero; otherwise the
\* success message was printed and the run has not panicked.
C6_FalseIsFatal ==
    (OnReal /\ checked # None /\ pc \in {"drop", "done"}) =>
       LET byte == log[Last(ZeroCalls)].arg
       IN  /\ checked[1] = (byte.Byte = 0)
           /\ IF checked[1]
              THEN /\ stdout = << "All good." >>
                   /\ status # "panicked"
                   /\ failure = None
              ELSE /\ stdout = << >>
                   /\ status = "panicked"
                   /\ failure = Some(Whoops)

C6_Witness ==
    /\ OnReal /\ checked = Some(FALSE) /\ pc = "done"
    /\ log[Last(ZeroCalls)].arg = Byte(1)
    /\ status = "panicked" /\ failure = Some(Whoops)

\* C7: is_true returns the wrapped value, for both booleans and in every
\* state, and every is_true call made returned the value wrapped by its
\* argument.
C7_IsTrueIdentity ==
    /\ \A p \in BOOLEAN : BooleanService_is_true(Boolean(p)) = p
    /\ \A i \in TrueCalls : log[i].ret = log[i].arg.Boolean
    /\ checked # None =>
          /\ is_zero # None
          /\ checked[1] = is_zero[1].Boolean

C7_Witness ==
    /\ \E i \in TrueCalls : log[i].arg = Boolean(FALSE) /\ log[i].ret = FALSE
    /\ checked = Some(FALSE)

\* C8 as stated: in every run of the program an Application receives exactly
\* one is_zero call, which completes before is_true is called on its result,
\* and nothing else is called before the drop.
C8_OneWorkflowPerRun ==
    run # "driver" =>
       /\ Cardinality(ZeroCalls) <= 1
       /\ \A i \in TrueCalls : \E j \in ZeroCalls : j < i
       /\ (pc = "done" /\ status = "ok") =>
             /\ Cardinality(ZeroCalls) = 1
             /\ Cardinality(TrueCalls) = 1

\* C8 amended: main makes exactly one is_zero call, then is_true on its
\* result, then drops the Application; each test makes two is_zero calls,
\* Byte(0) then Byte(1), and no is_true call, then drops the Application.
C8_Lifecycle ==
    /\ run = "main" =>
          LET whole == << "new", "functionality", "is_zero", "is_true", "drop" >>
          IN  /\ IsPrefix(Ops, whole)
              /\ pc = "done" => Ops = whole
              /\ \A i \in TrueCalls : log[i].arg = log[i - 1].ret
    /\ run = "without_mocks" =>
          LET whole == << "new", "functionality", "is_zero",
                          "functionality", "is_zero", "drop" >>
          IN  /\ IsPrefix(Ops, whole)
              /\ pc = "done" => Ops = whole
    /\ run = "with_mocks" =>
          LET whole == << "new", "is_zero", "is_zero", "drop" >>
          IN  /\ IsPrefix(Ops, whole)
              /\ pc = "done" => Ops = whole
    /\ run \in {"without_mocks", "with_mocks"} =>
          \A i, j \in ZeroCalls :
             i < j => log[i].arg = Byte(0) /\ log[j].arg = Byte(1)

C8_Witness ==
    /\ run = "without_mocks" /\ pc = "done" /\ status = "ok"
    /\ Cardinality(ZeroCalls) = 2
    /\ TrueCalls = {}

\* C9: a ProviderAdapter is_zero call changes neither the Application nor the
\* test double state, and after it every two ProviderAdapter calls in the log
\* with the same byte have returned the same Boolean.
C9_ReferentiallyTransparent ==
    [][(/\ Len(log') > Len(log)
        /\ \E i \in DOMAIN log' :
              /\ i > Len(log)
              /\ log'[i].op = "is_zero"
              /\ log'[i].svc = "ProviderAdapter")
       => /\ mock' = mock
          /\ run' = run
          /\ app' \in {app, None}
          /\ app' = None => status' = "panicked"
          /\ \A i, j \in DOMAIN log' :
                (/\ log'[i].op = "is_zero"
                 /\ log'[j].op = "is_zero"
                 /\ log'[i].arg = log'[j].arg)
                => log'[i].ret = log'[j].ret]_vars

C9_Witness ==
    /\ OnReal
    /\ \E i, j, k \in ZeroCalls :
          /\ i < j /\ j < k
          /\ log[i].arg = Byte(0) /\ log[j].arg = Byte(1) /\ log[k].arg = Byte(0)
          /\ log[i].ret = log[k].ret

\* C10: Byte(x) == Byte(y) exactly when x = y and Boolean(p) == Boolean(q)
\* exactly when p = q; an assertion that passed compared equal Booleans and an
\* expectation that took a call is for exactly the byte of the call.
C10_StructuralEquality ==
    /\ \A y \in Bytes : ByteEq(Byte(input), Byte(y)) <=> (input = y)
    /\ \A p, q \in BOOLEAN : BooleanEq(Boolean(p), Boolean(q)) <=> (p = q)
    /\ OnMock =>
          \A i \in Returned :
             \E e \in DOMAIN mock :
                /\ mock[e].with = log[i].arg
                /\ mock[e].returning = log[i].ret

C10_Witness ==
    /\ OnMock
    /\ input = 128
    /\ \E i, j \in ZeroCalls :
          /\ log[i].arg = Byte(0) /\ ~ IsPanic(log[i].ret)
          /\ log[j].arg = Byte(input) /\ IsPanic(log[j].ret)

====
